---- MODULE Spec2Model ----
(***************************************************************************)
(* A model of ETO_app.py, the SATAIR Operations Tracker: a Streamlit       *)
(* script with two modules (Equipment Maintenance, 6S Audits), each with   *)
(* an entry form, a log viewer and a dashboard over a per-session table.   *)
(*                                                                         *)
(* Streamlit runs the whole script from top to bottom on every user        *)
(* interaction of a session.  One action of the model is therefore one     *)
(* interaction followed by one complete run of the script: the             *)
(* initialisation of st.session_state, the handling of a submitted form,   *)
(* and the rendering of the three tabs of the selected module.             *)
(***************************************************************************)
EXTENDS Integers, Sequences, FiniteSets, TLC

VARIABLES
    session_state,  \* per session: st.session_state, a mapping key -> DataFrame
    widgets,        \* per session: the values of the widgets that outlive a run
    view,           \* per session: what the last run of the script rendered
    event           \* per session: the form submitted to the last run, if any

vars == <<session_state, widgets, view, event>>

-----------------------------------------------------------------------------
(* Bounds of the model *)

\* A session of Spec submits at most MaxSubmissions forms.
MaxSubmissions == 2
\* The calendar days of Spec are 1..MaxDate.
MaxDate == 2
\* The two sessions of SpecSessions submit at most MaxSharedSubmissions forms
\* between them.
MaxSharedSubmissions == 2

\* Two browser sessions of the one server process.
Sessions == {"s1", "s2"}
Dates == 1..MaxDate
\* The forms of SpecSessions are all dated day 1; Spec explores the dates.
SharedDates == {1}

-----------------------------------------------------------------------------
(* Sequences and exact fractions *)

Range(s) == {s[i] : i \in DOMAIN s}

IsPrefix(s, t) == Len(s) <= Len(t) /\ SubSeq(t, 1, Len(s)) = s

\* Python's `sub in s` on strings.
Contains(s, sub) ==
    \E i \in 1..(Len(s) - Len(sub) + 1) : SubSeq(s, i, i + Len(sub) - 1) = sub

RECURSIVE SeqSum(_)
SeqSum(s) == IF s = <<>> THEN 0 ELSE Head(s) + SeqSum(Tail(s))

Max(S) == CHOOSE x \in S : \A y \in S : y <= x
Min(S) == CHOOSE x \in S : \A y \in S : x <= y

RECURSIVE Gcd(_, _)
Gcd(a, b) == IF b = 0 THEN a ELSE Gcd(b, a % b)

\* A Python float is modelled by the exact fraction it approximates,
\* num/den in lowest terms with den > 0.
Frac(n, d) == LET g == Gcd(n, d) IN [num |-> n \div g, den |-> d \div g]
FracMul(q, k) == Frac(q.num * k, q.den)
FracAdd(p, q) == Frac(p.num * q.den + q.num * p.den, p.den * q.den)
FracDivInt(q, k) == Frac(q.num, q.den * k)

RECURSIVE FracSum(_)
FracSum(s) == IF s = <<>> THEN Frac(0, 1) ELSE FracAdd(Head(s), FracSum(Tail(s)))

\* f"{x:.1f}": x rounded to one decimal, as a number of tenths.
Format1f(q) == (2 * 10 * q.num + q.den) \div (2 * q.den)

-----------------------------------------------------------------------------
(* pandas DataFrames: an ordered list of column names and a list of rows,  *)
(* each row a mapping from column name to value.                           *)

NaN == "NaN"

DataFrame(cols) == [columns |-> cols, rows |-> <<>>]

\* pd.DataFrame([entry]) for a dict whose keys were inserted in order `keys`.
FrameOfDict(keys, entry) == [columns |-> keys, rows |-> <<entry>>]

\* DataFrame.empty: some axis has length 0.
empty(df) == Len(df.rows) = 0 \/ Len(df.columns) = 0

\* A row over the columns `names`; a column the row lacks holds NaN.
Reindex(row, names) ==
    [c \in names |-> IF c \in DOMAIN row THEN row[c] ELSE NaN]

\* The columns of a followed by the columns only b has.
UnionColumns(a, b) ==
    LET seen == Range(a.columns)
    IN  a.columns \o SelectSeq(b.columns, LAMBDA c : c \notin seen)

\* pd.concat([a, b], ignore_index=True): the union of the columns in order of
\* first appearance, the rows of a followed by the rows of b, renumbered.
concat(a, b) ==
    LET cols == UnionColumns(a, b)
        names == Range(cols)
    IN  [columns |-> cols,
         rows    |-> [i \in 1..Len(a.rows) |-> Reindex(a.rows[i], names)]
                     \o [i \in 1..Len(b.rows) |-> Reindex(b.rows[i], names)]]

\* df[cols]
Select(df, cols) ==
    LET names == Range(cols)
    IN  [columns |-> cols,
         rows    |-> [i \in 1..Len(df.rows) |-> [c \in names |-> df.rows[i][c]]]]

\* df[mask] for a boolean mask over the rows.
RECURSIVE MaskRows(_, _)
MaskRows(rows, mask) ==
    IF rows = <<>> THEN <<>>
    ELSE (IF Head(mask) THEN <<Head(rows)>> ELSE <<>>)
         \o MaskRows(Tail(rows), Tail(mask))

Column(df, c) == [i \in 1..Len(df.rows) |-> df.rows[i][c]]

\* df.to_csv(index=False): the header line, the names of the columns in
\* order, then one line per row, whose j-th field is the row's cell of the
\* j-th name of the header; a line is kept as the cells by header name.
to_csv(df) == [header |-> df.columns, records |-> df.rows]

\* A date is a day number; a pandas Timestamp is a number of seconds.
SecondsPerDay == 86400
to_datetime(d) == d * SecondsPerDay
dt_date(ts) == ts \div SecondsPerDay

-----------------------------------------------------------------------------
(* Module-level data of the script *)

activities_cols == <<"Date", "Equipment", "Technician", "Activity", "Remarks">>

\* The options of the "Activity Type" selectbox.
activity_options == <<"Inspection", "Repair", "Replacement", "Cleaning">>

Item(key, desc) == [key |-> key, desc |-> desc]

checklist_items ==
    << [category |-> "Sort", items |->
          << Item("item_1", "Workstation free of items"),
             Item("item_2", "Floors clear"),
             Item("item_3", "Unneeded bins removed") >>],
       [category |-> "Set in Order", items |->
          << Item("item_4", "Tools in designated locations"),
             Item("item_5", "Bin locations marked"),
             Item("item_6", "Ergonomic arrangement") >>],
       [category |-> "Shine", items |->
          << Item("item_7", "Port/workstation clean"),
             Item("item_8", "Grid/chargers free of dust"),
             Item("item_9", "Bins clean") >>],
       [category |-> "Standardize", items |->
          << Item("item_10", "SOPs visible/followed"),
             Item("item_11", "Cleaning schedules posted"),
             Item("item_12", "Operators follow same process") >>],
       [category |-> "Sustain", items |->
          << Item("item_13", "Previous actions completed"),
             Item("item_14", "Operators actively participate") >>],
       [category |-> "Safety", items |->
          << Item("item_15", "E-stops accessible"),
             Item("item_16", "PPE used correctly"),
             Item("item_17", "No safety hazards present") >>] >>

\* [key for category in checklist_items.values() for key in category]
RECURSIVE FlattenItems(_)
FlattenItems(cats) ==
    IF cats = <<>> THEN <<>> ELSE Head(cats).items \o FlattenItems(Tail(cats))

all_items == FlattenItems(checklist_items)
item_keys == [i \in 1..Len(all_items) |-> all_items[i].key]
ItemKeys == Range(item_keys)

StatusCol(key) == key \o "_Status"
RemarksCol(key) == key \o "_Remarks"

status_cols == [i \in 1..Len(item_keys) |-> StatusCol(item_keys[i])]
remarks_cols == [i \in 1..Len(item_keys) |-> RemarksCol(item_keys[i])]
base_cols_6s == <<"Date", "Equipment", "Auditor", "Compliance Score">>
all_cols_6s == base_cols_6s \o status_cols \o remarks_cols

\* item_map.get(item_key, "Unknown")
item_map ==
    [col \in Range(status_cols) |->
        all_items[CHOOSE i \in 1..Len(all_items) : StatusCol(all_items[i].key) = col].desc]

item_map_get(col) == IF col \in DOMAIN item_map THEN item_map[col] ELSE "Unknown"

EMT == "Equipment Maintenance"
AUDITS == "6S Audits"
Modes == {EMT, AUDITS}

-----------------------------------------------------------------------------
(* What a run renders: a list of elements, one per st.* call that shows    *)
(* something. `kind` is the Streamlit call, `label` its text, `value` its   *)
(* data.                                                                   *)

El(kind, label, value) == [kind |-> kind, label |-> label, value |-> value]
Kinds(out) == [i \in 1..Len(out) |-> out[i].kind]
HasKind(out, kind) == \E i \in 1..Len(out) : out[i].kind = kind
Labelled(out, kind, label) ==
    SelectSeq(out, LAMBDA e : e.kind = kind /\ e.label = label)

\* The number of values of `col` equal to v.
CountEq(col, v) == Cardinality({i \in 1..Len(col) : col[i] = v})

-----------------------------------------------------------------------------
(* Section 1 of the script: st.session_state *)

\* faulty variant: the guard is missing, the store is reset on every run.
setdefault_always(ss, key, value) ==
    [k \in DOMAIN ss \cup {key} |-> IF k = key THEN value ELSE ss[k]]

\* if key not in st.session_state: st.session_state[key] = value
setdefault(ss, key, value) ==
    IF key \in DOMAIN ss THEN ss
    ELSE [k \in DOMAIN ss \cup {key} |-> IF k = key THEN value ELSE ss[k]]

initialize_session_state(ss) ==
    setdefault(setdefault(ss, "activities", DataFrame(activities_cols)),
               "audits", DataFrame(all_cols_6s))

\* DataFrame.copy(): a frame is a value here, so a copy is the frame itself
\* and nothing done to the copy reaches the store.
copy(df) == df

-----------------------------------------------------------------------------
(* Equipment Maintenance: tab1, the entry form *)

\* faulty variant: Equipment and Technician are swapped in the new entry.
activity_new_entry_swapped(f) ==
    [Date |-> f.date, Equipment |-> f.technician, Technician |-> f.equipment,
     Activity |-> f.activity, Remarks |-> f.remarks]

activity_new_entry(f) ==
    [Date |-> f.date, Equipment |-> f.equipment, Technician |-> f.technician,
     Activity |-> f.activity, Remarks |-> f.remarks]

\* faulty variant: the submission also re-creates the audit store.
activity_form_submit_clobber(ss, f) ==
    [ss EXCEPT !["activities"] =
                   concat(ss["activities"],
                          FrameOfDict(activities_cols, activity_new_entry(f))),
               !["audits"] = DataFrame(all_cols_6s)]

\* if submitted: ... st.session_state.activities = pd.concat([...])
activity_form_submit(ss, f) ==
    [ss EXCEPT !["activities"] =
                   concat(ss["activities"],
                          FrameOfDict(activities_cols, activity_new_entry(f)))]

(* Equipment Maintenance: tab2, the log viewer *)
MaintenanceLog(activities) ==
    IF empty(activities)
    THEN << El("info", "No maintenance records yet.", <<>>) >>
    ELSE LET df == copy(activities)
         IN  << El("dataframe", "", df),
                El("download_button", "maintenance_logs.csv", to_csv(df)) >>

-----------------------------------------------------------------------------
(* The dashboards' date range *)

\* df_dash['Date'] = pd.to_datetime(df_dash['Date'])
ConvertDates(df) ==
    [df EXCEPT !.rows = [i \in 1..Len(df.rows) |->
                           [df.rows[i] EXCEPT !["Date"] = to_datetime(@)]]]

DateColumn(df_dash) == Column(df_dash, "Date")

\* st.date_input(label, default): `prev` is the widget's value after the
\* last run (<<>> when that run did not render it), `was` the default it was
\* given then.  Streamlit identifies a widget without a key by its arguments:
\* a new default makes it a new widget, which shows the default.  For a
\* widget with a key the Streamlit version decides whether the value is kept.
date_input(prev, was, default, keyed) ==
    IF prev = <<>> THEN {default}
    ELSE IF was = <<default>> THEN {prev[1]}
    ELSE IF keyed THEN {prev[1], default}
    ELSE {default}

\* The default a date widget was given by the run that left the store `df`.
MinDefault(df) ==
    IF empty(df) THEN <<>> ELSE << dt_date(Min(Range(DateColumn(ConvertDates(df))))) >>
MaxDefault(df) ==
    IF empty(df) THEN <<>> ELSE << dt_date(Max(Range(DateColumn(ConvertDates(df))))) >>

\* faulty variant: the end of the range is excluded.
date_mask_exclusive(df_dash, start_date, end_date) ==
    [i \in 1..Len(df_dash.rows) |->
        dt_date(df_dash.rows[i]["Date"]) >= start_date
        /\ dt_date(df_dash.rows[i]["Date"]) < end_date]

\* (df_dash['Date'].dt.date >= start) & (df_dash['Date'].dt.date <= end)
date_mask(df_dash, start_date, end_date) ==
    [i \in 1..Len(df_dash.rows) |->
        dt_date(df_dash.rows[i]["Date"]) >= start_date
        /\ dt_date(df_dash.rows[i]["Date"]) <= end_date]

FilterByDate(df_dash, start_date, end_date) ==
    [df_dash EXCEPT !.rows = MaskRows(df_dash.rows,
                                      date_mask(df_dash, start_date, end_date))]

DateRangeHeader(start_date, end_date) ==
    << El("markdown", "#### Select Date Range", <<>>),
       El("date_input", "Start date", start_date),
       El("date_input", "End date", end_date) >>

\* value -> number of rows of df holding it in column c
value_counts(df, c) ==
    [v \in Range(Column(df, c)) |-> CountEq(Column(df, c), v)]

\* pd.crosstab(df[r], df[c])
crosstab(df, r, c) ==
    [x \in Range(Column(df, r)) |->
        [y \in Range(Column(df, c)) |->
            Cardinality({i \in 1..Len(df.rows) :
                            df.rows[i][r] = x /\ df.rows[i][c] = y})]]

-----------------------------------------------------------------------------
(* Equipment Maintenance: tab3, the dashboard *)

MaintenanceCharts(filtered_df) ==
    LET pivot_df == crosstab(filtered_df, "Equipment", "Activity")
    IN  << El("metric", "Total Activities", Len(filtered_df.rows)),
           El("metric", "Inspections",
              CountEq(Column(filtered_df, "Activity"), "Inspection")),
           El("metric", "Repairs",
              CountEq(Column(filtered_df, "Activity"), "Repair")),
           El("pyplot", "Activities by Type",
              value_counts(filtered_df, "Activity")),
           El("plotly_chart", "Activities per Equipment",
              value_counts(filtered_df, "Equipment")),
           IF DOMAIN pivot_df # {}
           THEN El("pyplot", "Equipment vs. Activity Frequency", pivot_df)
           ELSE El("info", "Not enough data to display a correlation matrix.", <<>>) >>

\* faulty variant: the charts are drawn whatever the filter selects.
MaintenanceRange_unguarded(df_dash, start_date, end_date) ==
    IF start_date > end_date
    THEN << El("error", "Error: End date must be after start date.", <<>>) >>
    ELSE MaintenanceCharts(FilterByDate(df_dash, start_date, end_date))

\* faulty variant: the order of the two dates is not checked.
MaintenanceRange_unchecked(df_dash, start_date, end_date) ==
    LET filtered_df == FilterByDate(df_dash, start_date, end_date)
    IN  IF empty(filtered_df)
        THEN << El("warning", "No data in the selected date range.", <<>>) >>
        ELSE MaintenanceCharts(filtered_df)

\* if start_date > end_date: ... else: ... (lines 93-139)
MaintenanceRange(df_dash, start_date, end_date) ==
    IF start_date > end_date
    THEN << El("error", "Error: End date must be after start date.", <<>>) >>
    ELSE LET filtered_df == FilterByDate(df_dash, start_date, end_date)
         IN  IF empty(filtered_df)
             THEN << El("warning", "No data in the selected date range.", <<>>) >>
             ELSE MaintenanceCharts(filtered_df)

\* The dashboard of a store that is not empty, for the values of its two
\* date widgets.
MaintenanceDashboard(activities, start_date, end_date) ==
    LET df_dash == ConvertDates(copy(activities))
    IN  DateRangeHeader(start_date, end_date)
        \o MaintenanceRange(df_dash, start_date, end_date)

NoDashboard == << El("warning", "No data available to generate dashboard.", <<>>) >>

NoWidgets(app_mode) ==
    [app_mode |-> app_mode, start_date |-> <<>>, end_date |-> <<>>,
     start_6s |-> <<>>, end_6s |-> <<>>]

Page(title, form, log, dash) ==
    [title |-> title, form |-> form, log |-> log, dash |-> dash]

\* What a run leaves to the widgets and to the numpy build: the values the
\* two date widgets of the dashboard show (<<>> when they are not rendered)
\* and the head of the sorted failure counts (<<>> when it is not computed).
Choice(start, end, top) == [start |-> start, end |-> end, top |-> top]

PreviousStore(ss0, key, cols) ==
    IF key \in DOMAIN ss0 THEN ss0[key] ELSE DataFrame(cols)

\* The `if app_mode == "Equipment Maintenance"` branch of one run, given
\* st.session_state after section 1 (ss1), the form event ev of this run
\* and the values c.start, c.end of the date widgets.
MaintenancePage(ss1, ev, c) ==
    LET submitted == ev.form = "activity_form"
        ss2 == IF submitted THEN activity_form_submit(ss1, ev.values) ELSE ss1
        form == IF submitted
                THEN << El("success", "Activity added successfully!", <<>>) >>
                ELSE <<>>
        activities == ss2["activities"]
    IN  [session_state |-> ss2,
         widgets |-> [NoWidgets(EMT) EXCEPT !.start_date = c.start,
                                            !.end_date = c.end],
         view |-> Page("Equipment Maintenance Tracker", form,
                       MaintenanceLog(activities),
                       IF empty(activities) THEN NoDashboard
                       ELSE MaintenanceDashboard(activities, c.start[1], c.end[1]))]

\* The values the date widgets of the maintenance dashboard can show in a
\* run that starts from st.session_state ss0 with widget values w and leaves
\* the store `activities`.
MaintenanceChoices(ss0, w, activities) ==
    LET was == PreviousStore(ss0, "activities", activities_cols)
    IN  IF empty(activities) THEN { Choice(<<>>, <<>>, <<>>) }
        ELSE { Choice(<<sd>>, <<ed>>, <<>>) :
               sd \in date_input(w.start_date, MinDefault(was),
                                 MinDefault(activities)[1], FALSE),
               ed \in date_input(w.end_date, MaxDefault(was),
                                 MaxDefault(activities)[1], FALSE) }

-----------------------------------------------------------------------------
(* 6S Audits: tab1, the audit form *)

\* The keys of `results` in insertion order: for each checklist item its
\* status, then its remarks.
RECURSIVE ResultKeys(_)
ResultKeys(keys) ==
    IF keys = <<>> THEN <<>>
    ELSE << StatusCol(Head(keys)), RemarksCol(Head(keys)) >> \o ResultKeys(Tail(keys))

results_keys == ResultKeys(item_keys)

\* The checklist item a key of `results` belongs to.
ItemOfCol ==
    [c \in Range(results_keys) |->
        CHOOSE k \in ItemKeys : c \in {StatusCol(k), RemarksCol(k)}]

\* The loop over checklist_items that fills `results` from the checkboxes
\* (f.status) and the remark inputs (f.remarks) of the form.
StatusCols == Range(status_cols)
ResultCols == Range(results_keys)

audit_results(f) ==
    [c \in ResultCols |->
        IF c \in StatusCols THEN f.status[ItemOfCol[c]] ELSE f.remarks[ItemOfCol[c]]]

\* faulty variant: the score counts the items that failed.
compliance_score_failed(results) ==
    LET total_items == Len(status_cols)
        passed_items == Cardinality({i \in 1..Len(status_cols) :
                                        ~results[status_cols[i]]})
    IN  IF total_items > 0
        THEN FracMul(Frac(passed_items, total_items), 100)
        ELSE Frac(0, 1)

\* total_items, passed_items, score (lines 169-171)
compliance_score(results) ==
    LET total_items == Len(status_cols)
        passed_items == Cardinality({i \in 1..Len(status_cols) :
                                        results[status_cols[i]]})
    IN  IF total_items > 0
        THEN FracMul(Frac(passed_items, total_items), 100)
        ELSE Frac(0, 1)

audit_entry_keys == base_cols_6s \o results_keys

\* {"Date": ..., "Equipment": ..., "Auditor": ..., "Compliance Score": score, **results}
EntryCols == Range(audit_entry_keys)

audit_new_entry(f, score, results) ==
    [c \in EntryCols |->
        CASE c = "Date" -> f.date
          [] c = "Equipment" -> f.equipment
          [] c = "Auditor" -> f.auditor
          [] c = "Compliance Score" -> score
          [] OTHER -> results[c]]

\* if st.form_submit_button(...): ... st.session_state.audits = pd.concat([...])
audit_form_submit(ss, f) ==
    LET results == audit_results(f)
        score == compliance_score(results)
    IN  [ss EXCEPT !["audits"] =
                       concat(ss["audits"],
                              FrameOfDict(audit_entry_keys,
                                          audit_new_entry(f, score, results)))]

\* st.success(f"Audit submitted successfully! Compliance Score: {score:.1f}%")
audit_form_success(f) ==
    El("success", "Audit submitted successfully! Compliance Score:",
       Format1f(compliance_score(audit_results(f))))

(* 6S Audits: tab2, the log viewer *)

\* faulty variant: the export is the full frame, the table too.
AuditLogColumns_all(df) == df.columns

\* The column names of the two stores and, of these, the names that
\* contain '_Status'.
ColumnNames == Range(activities_cols) \cup Range(audit_entry_keys) \cup Range(all_cols_6s)
StatusNamed == {col \in ColumnNames : Contains(col, "_Status")}

\* base_cols_6s + [col for col in df_filtered.columns if '_Status' in col]
AuditLogColumns(df) ==
    base_cols_6s \o SelectSeq(df.columns, LAMBDA col : col \in StatusNamed)

AuditLog(audits) ==
    IF empty(audits)
    THEN << El("info", "No audit records yet.", <<>>) >>
    ELSE LET df_filtered == copy(audits)
         IN  << El("dataframe", "", Select(df_filtered, AuditLogColumns(df_filtered))),
                El("download_button", "6s_audit_logs.csv", to_csv(df_filtered)) >>

-----------------------------------------------------------------------------
(* 6S Audits: tab3, the dashboard *)

\* (status_df == False).sum(): per status column, the rows that failed.
RECURSIVE ColumnCounts(_, _, _)
ColumnCounts(df, cols, v) ==
    IF cols = <<>> THEN <<>>
    ELSE (Head(cols) :> CountEq(Column(df, Head(cols)), v))
         @@ ColumnCounts(df, Tail(cols), v)

failure_counts(status_df) == ColumnCounts(status_df, status_df.columns, FALSE)

\* faulty variant: the sort is ascending, the labels with the smallest count
\* come first.
Largest_ascending(counts, S) ==
    LET m == Min({counts[d] : d \in S})
    IN  {c \in S : counts[c] = m}

\* The labels of S with the largest count.
Largest(counts, S) ==
    LET m == Max({counts[d] : d \in S})
    IN  {c \in S : counts[c] = m}

\* counts.sort_values(ascending=False).head(n) over the labels S: the sort is
\* pandas' default (kind='quicksort'), which is not stable, so labels of
\* equal count come in whatever order the numpy build produces.  The set of
\* the possible heads.
RECURSIVE SortedHeads(_, _, _)
SortedHeads(counts, S, n) ==
    IF n = 0 \/ S = {} THEN { <<>> }
    ELSE UNION { { <<c>> \o t : t \in SortedHeads(counts, S \ {c}, n - 1) } :
                 c \in Largest(counts, S) }

HeadSize == 3

TopFailing(status_df) ==
    SortedHeads(failure_counts(status_df), Range(status_df.columns), HeadSize)

\* for i, (item_key, count) in enumerate(failure_counts.head(3).items())
TopFailingLines(counts, top) ==
    [i \in 1..Len(top) |->
        El("markdown", "Failed item",
           [rank |-> i, desc |-> item_map_get(top[i]), count |-> counts[top[i]]])]

mean(col) == FracDivInt(FracSum(col), Len(col))

\* df.groupby(g)[c].mean()
groupby_mean(df, g, c) ==
    [x \in Range(Column(df, g)) |->
        mean(Column([df EXCEPT !.rows = SelectSeq(df.rows, LAMBDA r : r[g] = x)], c))]

\* heatmap_df.columns.strftime('%Y-%m-%d'): the day of a timestamp as text
strftime(ts) == "day " \o ToString(dt_date(ts))

\* df.pivot_table(index=r, columns='Date', values=c, aggfunc='mean') with the
\* date columns formatted; a cell without rows is NaN.
pivot_table_mean(df, r, c) ==
    [x \in Range(Column(df, r)) |->
        [d \in {strftime(t) : t \in Range(Column(df, "Date"))} |->
            LET cell == SelectSeq(df.rows,
                                  LAMBDA row : row[r] = x /\ strftime(row["Date"]) = d)
            IN  IF cell = <<>> THEN <<>>
                ELSE << mean([i \in 1..Len(cell) |-> cell[i][c]]) >>]]

AuditCharts(filtered_df_6s, top) ==
    LET status_df == Select(filtered_df_6s, status_cols)
        heatmap_df == pivot_table_mean(filtered_df_6s, "Equipment", "Compliance Score")
    IN  << El("metric", "Total Audits", Len(filtered_df_6s.rows)),
           El("metric", "Avg. Compliance Score",
              Format1f(mean(Column(filtered_df_6s, "Compliance Score")))),
           El("markdown", "**Top 3 Failing Items**", <<>>) >>
        \o TopFailingLines(failure_counts(status_df), top)
        \o << El("pyplot", "Average Compliance by Equipment",
                 groupby_mean(filtered_df_6s, "Equipment", "Compliance Score")),
              IF DOMAIN heatmap_df # {}
              THEN El("pyplot", "Compliance Score by Equipment Over Time", heatmap_df)
              ELSE El("info", "Not enough data to display a compliance heatmap.", <<>>) >>

\* if start_date_6s > end_date_6s: ... else: ... (lines 198-250)
AuditRange(df_dash, start_date_6s, end_date_6s, top) ==
    IF start_date_6s > end_date_6s
    THEN << El("error", "Error: End date must be after start date.", <<>>) >>
    ELSE LET filtered_df_6s == FilterByDate(df_dash, start_date_6s, end_date_6s)
         IN  IF empty(filtered_df_6s)
             THEN << El("warning", "No data in the selected date range.", <<>>) >>
             ELSE AuditCharts(filtered_df_6s, top)

\* The dashboard of a store that is not empty.
AuditDashboard(audits, start_date_6s, end_date_6s, top) ==
    LET df_dash == ConvertDates(copy(audits))
    IN  DateRangeHeader(start_date_6s, end_date_6s)
        \o AuditRange(df_dash, start_date_6s, end_date_6s, top)

\* The heads the sort of line 216 can produce in the dashboard of `audits`
\* for a date range; <<>> alone when the run does not reach the sort.
TopChoices(audits, start_date_6s, end_date_6s) ==
    LET filtered_df_6s == FilterByDate(ConvertDates(copy(audits)),
                                       start_date_6s, end_date_6s)
    IN  IF start_date_6s > end_date_6s \/ empty(filtered_df_6s) THEN { <<>> }
        ELSE TopFailing(Select(filtered_df_6s, status_cols))

\* The `elif app_mode == "6S Audits"` branch of one run.
AuditPage(ss1, ev, c) ==
    LET submitted == ev.form = "audit_form"
        ss2 == IF submitted THEN audit_form_submit(ss1, ev.values) ELSE ss1
        form == IF submitted THEN << audit_form_success(ev.values) >> ELSE <<>>
        audits == ss2["audits"]
    IN  [session_state |-> ss2,
         widgets |-> [NoWidgets(AUDITS) EXCEPT !.start_6s = c.start,
                                               !.end_6s = c.end],
         view |-> Page("Autostore 6S Audit Tracker", form, AuditLog(audits),
                       IF empty(audits) THEN NoDashboard
                       ELSE AuditDashboard(audits, c.start[1], c.end[1], c.top))]

AuditChoices(ss0, w, audits) ==
    LET was == PreviousStore(ss0, "audits", all_cols_6s)
    IN  IF empty(audits) THEN { Choice(<<>>, <<>>, <<>>) }
        ELSE UNION {
               { Choice(<<sd>>, <<ed>>, top) : top \in TopChoices(audits, sd, ed) } :
               sd \in date_input(w.start_6s, MinDefault(was),
                                 MinDefault(audits)[1], TRUE),
               ed \in date_input(w.end_6s, MaxDefault(was),
                                 MaxDefault(audits)[1], TRUE) }

-----------------------------------------------------------------------------
(* One run of the script *)

NoEvent == [form |-> "none"]

\* One run of the script from top to bottom, for the choice c.
Script(ss0, w, ev, c) ==
    LET ss1 == initialize_session_state(ss0)
    IN  IF w.app_mode = EMT
        THEN MaintenancePage(ss1, ev, c)
        ELSE AuditPage(ss1, ev, c)

\* The choices of a run: those of the page of the selected module, for the
\* store the form handling of this run leaves.
ScriptChoices(ss0, w, ev) ==
    LET ss1 == initialize_session_state(ss0)
    IN  IF w.app_mode = EMT
        THEN MaintenanceChoices(ss0, w,
                 IF ev.form = "activity_form"
                 THEN activity_form_submit(ss1, ev.values)["activities"]
                 ELSE ss1["activities"])
        ELSE AuditChoices(ss0, w,
                 IF ev.form = "audit_form"
                 THEN audit_form_submit(ss1, ev.values)["audits"]
                 ELSE ss1["audits"])

-----------------------------------------------------------------------------
(* What the user enters *)

\* The maintenance forms of the model, one per day: inspections on odd days,
\* repairs on even days.
ActivityForms(dates) ==
    { IF d % 2 = 1
      THEN [date |-> d, equipment |-> "Port-01", technician |-> "Jane Doe",
            activity |-> "Inspection", remarks |-> ""]
      ELSE [date |-> d, equipment |-> "Port-02", technician |-> "",
            activity |-> "Repair", remarks |-> "belt replaced"] :
      d \in dates }

\* An audit form: the checkboxes of `failing` are left unchecked, the
\* remarks of `noted` are filled in.
AuditForm(d, equipment, auditor, failing, noted) ==
    [date |-> d, equipment |-> equipment, auditor |-> auditor,
     status |-> [k \in ItemKeys |-> k \notin failing],
     remarks |-> [k \in ItemKeys |-> IF k \in noted THEN "see photo" ELSE ""]]

\* The audit forms of the model, one per day.
AuditForms(dates) ==
    { IF d % 2 = 1
      THEN AuditForm(d, "Workstation-A", "John Smith",
                     {"item_2", "item_5", "item_9"}, {"item_2"})
      ELSE AuditForm(d, "Workstation-B", "",
                     {"item_5", "item_9", "item_12"}, {}) :
      d \in dates }

-----------------------------------------------------------------------------
(* The state machine *)

NotRendered == Page("", <<>>, <<>>, <<>>)

\* No session has run the script yet; the sidebar radio of a new session
\* shows its first option.
Init ==
    /\ session_state = [s \in Sessions |-> <<>>]
    /\ widgets = [s \in Sessions |-> NoWidgets(EMT)]
    /\ view = [s \in Sessions |-> NotRendered]
    /\ event = [s \in Sessions |-> NoEvent]

Connected(s) == DOMAIN session_state[s] # {}

Store(s, key) ==
    IF key \in DOMAIN session_state[s] THEN session_state[s][key].rows ELSE <<>>

Submissions(s) == Len(Store(s, "activities")) + Len(Store(s, "audits"))

RECURSIVE SumOver(_, _)
SumOver(f, S) ==
    IF S = {} THEN 0
    ELSE LET x == CHOOSE x \in S : TRUE IN f[x] + SumOver(f, S \ {x})

AllSubmissions == SumOver([s \in Sessions |-> Submissions(s)], Sessions)

ActiveKey(s) == IF widgets[s].app_mode = EMT THEN "activities" ELSE "audits"

\* faulty variant: the stores are globals of the server process, which all
\* sessions share.
SessionStateSet_global(all, s, ss) == [t \in Sessions |-> ss]

\* st.session_state belongs to the session that runs the script: what the
\* run of session s leaves in it.
SessionStateSet(all, s, ss) == [all EXCEPT ![s] = ss]

\* Session s runs the script with widget values w and form event ev.
Run(s, w, ev) ==
    \E c \in ScriptChoices(session_state[s], w, ev) :
        LET r == Script(session_state[s], w, ev, c)
        IN  /\ session_state' = SessionStateSet(session_state, s, r.session_state)
            /\ widgets' = [widgets EXCEPT ![s] = r.widgets]
            /\ view' = [view EXCEPT ![s] = r.view]
            /\ event' = [event EXCEPT ![s] = ev]

\* A browser opens the app: the first run of a session.
Connect(s) ==
    /\ ~Connected(s)
    /\ Run(s, widgets[s], NoEvent)

\* The sidebar radio.
SelectModule(s) ==
    /\ Connected(s)
    /\ \E m \in Modes \ {widgets[s].app_mode} :
          Run(s, [widgets[s] EXCEPT !.app_mode = m], NoEvent)

ActivityEvent(f) == [form |-> "activity_form", values |-> f]
AuditEvent(f) == [form |-> "audit_form", values |-> f]

\* "Add Activity" in the form of tab1, filled in as f.
SubmitActivity(s, f) ==
    /\ Connected(s)
    /\ widgets[s].app_mode = EMT
    /\ Run(s, widgets[s], ActivityEvent(f))

\* "Submit Audit" in the form of tab1, filled in as f.
SubmitAudit(s, f) ==
    /\ Connected(s)
    /\ widgets[s].app_mode = AUDITS
    /\ Run(s, widgets[s], AuditEvent(f))

\* The widget values after the user picks day d in one date input of the
\* dashboard that is shown.
DatePicks(w, d) ==
    IF w.app_mode = EMT
    THEN {[w EXCEPT !.start_date = <<d>>], [w EXCEPT !.end_date = <<d>>]}
    ELSE {[w EXCEPT !.start_6s = <<d>>], [w EXCEPT !.end_6s = <<d>>]}

\* The user picks another start or end date in the dashboard that is shown.
ChangeDateRange(s, dates) ==
    /\ Connected(s)
    /\ Store(s, ActiveKey(s)) # <<>>
    /\ \E d \in dates : \E w \in DatePicks(widgets[s], d) \ {widgets[s]} :
          Run(s, w, NoEvent)

\* A click on the download button of the log viewer, which reruns the script.
ClickDownload(s) ==
    /\ Connected(s)
    /\ Store(s, ActiveKey(s)) # <<>>
    /\ Run(s, widgets[s], NoEvent)

\* One session.
Next ==
    \/ Connect("s1")
    \/ SelectModule("s1")
    \/ /\ Submissions("s1") < MaxSubmissions
       /\ \E f \in ActivityForms(Dates) : SubmitActivity("s1", f)
    \/ /\ Submissions("s1") < MaxSubmissions
       /\ \E f \in AuditForms(Dates) : SubmitAudit("s1", f)
    \/ ChangeDateRange("s1", Dates)
    \/ ClickDownload("s1")

Spec == Init /\ [][Next]_vars

\* Two sessions, interleaved.
NextSessions ==
    \E s \in Sessions :
        \/ Connect(s)
        \/ SelectModule(s)
        \/ /\ AllSubmissions < MaxSharedSubmissions
           /\ \E f \in ActivityForms(SharedDates) : SubmitActivity(s, f)
        \/ /\ AllSubmissions < MaxSharedSubmissions
           /\ \E f \in AuditForms(SharedDates) : SubmitAudit(s, f)
        \/ ClickDownload(s)

SpecSessions == Init /\ [][NextSessions]_vars

\* The submit block of the audit form (lines 168-174) on its own, in a
\* session that shows the 6S module with an empty store: the store and the
\* success message the block leaves, for the checkboxes ticked.

\* The checkboxes ticked: n items in declaration order, from the i-th on
\* (wrapping around).
Ticked(i, n) ==
    [k \in ItemKeys |->
        \E j \in 0..(n - 1) : item_keys[((i - 1 + j) % Len(item_keys)) + 1] = k]

TickedForms ==
    { [date |-> 1, equipment |-> "Workstation-A", auditor |-> "John Smith",
       status |-> Ticked(i, n), remarks |-> [k \in ItemKeys |-> ""]] :
      i \in 1..Len(item_keys), n \in 0..Len(item_keys) }

\* "s1" has connected and selected "6S Audits"; "s2" has not connected.
InitScore ==
    LET r == Script(<<>>, NoWidgets(AUDITS), NoEvent, Choice(<<>>, <<>>, <<>>))
    IN  /\ session_state = [s \in Sessions |-> IF s = "s1" THEN r.session_state ELSE <<>>]
        /\ widgets = [s \in Sessions |-> IF s = "s1" THEN r.widgets ELSE NoWidgets(EMT)]
        /\ view = [s \in Sessions |-> IF s = "s1" THEN r.view ELSE NotRendered]
        /\ event = [s \in Sessions |-> NoEvent]

AuditFormBlock(s, f) ==
    /\ Store(s, "audits") = <<>>
    /\ session_state' = SessionStateSet(session_state, s,
                                        audit_form_submit(session_state[s], f))
    /\ view' = [view EXCEPT ![s].form = << audit_form_success(f) >>]
    /\ event' = [event EXCEPT ![s] = AuditEvent(f)]
    /\ UNCHANGED widgets

NextScore == \E f \in TickedForms : AuditFormBlock("s1", f)

SpecScore == InitScore /\ [][NextScore]_vars

-----------------------------------------------------------------------------
(* Properties *)

\* The rows of store `key` in a session's st.session_state.
Rows(ss, key) == IF key \in DOMAIN ss THEN ss[key].rows ELSE <<>>

\* The rows of `rows` dated within start..end, by the day that was entered.
InRange(rows, start, end) ==
    SelectSeq(rows, LAMBDA r : start <= r["Date"] /\ r["Date"] <= end)

\* The run of this step handled a submitted form `form` of session s.
Submitted(s, form) == event'[s].form = form

\* Store `key` of session s has one row more after the step, the rows before
\* it are as they were, and `row` tells whether the last row is as expected.
AppendsOne(s, key, row(_)) ==
    LET before == Rows(session_state[s], key)
        after == Rows(session_state'[s], key)
    IN  /\ Len(after) = Len(before) + 1
        /\ SubSeq(after, 1, Len(before)) = before
        /\ row(after[Len(after)])

ActivityRowOf(f, r) ==
    /\ r["Date"] = f.date
    /\ r["Equipment"] = f.equipment
    /\ r["Technician"] = f.technician
    /\ r["Activity"] = f.activity
    /\ r["Remarks"] = f.remarks

AuditRowOf(f, r) ==
    /\ r["Date"] = f.date
    /\ r["Equipment"] = f.equipment
    /\ r["Auditor"] = f.auditor
    /\ \A k \in ItemKeys :
          /\ r[StatusCol(k)] = f.status[k]
          /\ r[RemarksCol(k)] = f.remarks[k]

\* C1: a submission of the maintenance form or of the audit form adds exactly
\* one row to the store of its module, as the last row, and every field of
\* that row holds the value entered in the form (for an audit: the date, the
\* equipment, the auditor, the 17 status flags and the 17 remarks).
C1_SubmissionAppendsRow ==
    [][ /\ Submitted("s1", "activity_form")
           => AppendsOne("s1", "activities",
                         LAMBDA r : ActivityRowOf(event'["s1"].values, r))
        /\ Submitted("s1", "audit_form")
           => AppendsOne("s1", "audits",
                         LAMBDA r : AuditRowOf(event'["s1"].values, r)) ]_vars

\* An audit with remarks was submitted to a session that already holds a
\* maintenance record, and is the last row of the audit store.
C1_Witness ==
    /\ event["s1"].form = "audit_form"
    /\ Len(Store("s1", "activities")) = 1
    /\ Len(Store("s1", "audits")) = 1
    /\ Store("s1", "audits")[1]["item_2_Remarks"] = "see photo"
    /\ Store("s1", "audits")[1]["item_2_Status"] = FALSE

\* The number of status flags of an audit row that are true.
PassedFlags(r) == Cardinality({k \in ItemKeys : r[StatusCol(k)]})

\* C2: the compliance score stored in an audit record is 100 x (number of
\* status flags that are true) / 17; 17 passes give 100 and 0 passes give 0.
C2_ScoreIsPassedShare ==
    \A i \in 1..Len(Store("s1", "audits")) :
        LET r == Store("s1", "audits")[i]
            score == r["Compliance Score"]
        IN  /\ Cardinality(ItemKeys) = 17
            /\ score.den > 0
            /\ score.num * 17 = 100 * PassedFlags(r) * score.den
            /\ PassedFlags(r) = 17 => score.num = 100 * score.den
            /\ PassedFlags(r) = 0 => score.num = 0

\* An audit with 9 of the 17 items passed is stored, and the message shows
\* its score to one decimal, 52.9.
C2_Witness ==
    /\ Len(Store("s1", "audits")) = 1
    /\ PassedFlags(Store("s1", "audits")[1]) = 9
    /\ view["s1"].form[1].value = 529

\* C8: both stores are append-only: after any step each store of a session
\* begins with the rows it held before the step, unchanged and in the same
\* order, and a store that exists is not created again.
C8_AppendOnly ==
    [][ \A s \in Sessions : \A key \in {"activities", "audits"} :
            /\ IsPrefix(Rows(session_state[s], key), Rows(session_state'[s], key))
            /\ key \in DOMAIN session_state[s] => key \in DOMAIN session_state'[s] ]_vars

\* A run without a form (a module switch, a date change, a download) has
\* followed two submissions, and both records are still in the store.
C8_Witness ==
    /\ event["s1"].form = "none"
    /\ \E key \in {"activities", "audits"} : Len(Store("s1", key)) = 2

\* C10: a maintenance submission leaves the audit store as it was, an audit
\* submission leaves the maintenance store as it was, and a run without a
\* submitted form (rendering the log, the export, the dashboard, a changed
\* date range, another module) leaves both stores as they were.
C10_Frame ==
    [][ /\ Submitted("s1", "activity_form")
           => session_state'["s1"]["audits"] = session_state["s1"]["audits"]
        /\ Submitted("s1", "audit_form")
           => session_state'["s1"]["activities"] = session_state["s1"]["activities"]
        /\ (Submitted("s1", "none") /\ Connected("s1"))
           => session_state'["s1"] = session_state["s1"] ]_vars

\* A maintenance submission was handled while the audit store held a record.
C10_Witness ==
    /\ event["s1"].form = "activity_form"
    /\ Len(Store("s1", "audits")) = 1

\* The values of the two date widgets of the dashboard session s shows.
ShownStart(s) ==
    IF widgets[s].app_mode = EMT THEN widgets[s].start_date ELSE widgets[s].start_6s
ShownEnd(s) ==
    IF widgets[s].app_mode = EMT THEN widgets[s].end_date ELSE widgets[s].end_6s

\* The dashboard of session s shows a date range over a store with rows.
RangeShown(s) == Connected(s) /\ Store(s, ActiveKey(s)) # <<>>

\* The rows of the store the dashboard of session s selects, by the day
\* that was entered.
ShownRows(s) == InRange(Store(s, ActiveKey(s)), ShownStart(s)[1], ShownEnd(s)[1])

\* A row of a dashboard's frame with its timestamp as the day again.
Dated(r) == [r EXCEPT !["Date"] = @ \div SecondsPerDay]

\* C3: for start <= end the rows a dashboard filters from its store are
\* exactly the stored rows dated within start..end, both ends included, in
\* both modules; the total the dashboard shows counts exactly these rows.
C3_FilterInclusive ==
    Connected("s1") =>
        /\ \A key \in {"activities", "audits"} : \A sd \in Dates : \A ed \in Dates :
              sd <= ed =>
                LET df_dash == ConvertDates(copy(session_state["s1"][key]))
                    filtered == FilterByDate(df_dash, sd, ed).rows
                IN  [i \in 1..Len(filtered) |-> Dated(filtered[i])]
                        = InRange(Store("s1", key), sd, ed)
        /\ \A i \in 1..Len(view["s1"].dash) :
              LET e == view["s1"].dash[i]
              IN  (e.kind = "metric" /\ e.label \in {"Total Activities", "Total Audits"})
                  => e.value = Len(ShownRows("s1"))

\* The maintenance store holds a record of day 1 and one of day 2, the range
\* is day 2 to day 2, and the dashboard counts the one record dated on it.
C3_Witness ==
    /\ widgets["s1"].app_mode = EMT
    /\ {r["Date"] : r \in Range(Store("s1", "activities"))} = {1, 2}
    /\ widgets["s1"].start_date = <<2>>
    /\ widgets["s1"].end_date = <<2>>
    /\ Labelled(view["s1"].dash, "metric", "Total Activities")
          = << El("metric", "Total Activities", 1) >>

\* C4: when the start date is after the end date, the dashboard of either
\* module shows the validation error after its two date inputs and nothing
\* else: no metric, no chart, no table.
C4_InvertedRangeIsError ==
    (RangeShown("s1") /\ ShownStart("s1")[1] > ShownEnd("s1")[1]) =>
        /\ Kinds(view["s1"].dash) = <<"markdown", "date_input", "date_input", "error">>
        /\ view["s1"].dash[4].label = "Error: End date must be after start date."

\* The maintenance dashboard with start date day 2 and end date day 1.
C4_Witness ==
    /\ widgets["s1"].app_mode = EMT
    /\ widgets["s1"].start_date = <<2>>
    /\ widgets["s1"].end_date = <<1>>
    /\ HasKind(view["s1"].dash, "error")

\* The empty-state message of the log viewer of the module session s shows.
NoRecords(s) ==
    IF widgets[s].app_mode = EMT
    THEN "No maintenance records yet."
    ELSE "No audit records yet."

\* The kinds of element that show an aggregation.
Aggregates == {"metric", "pyplot", "plotly_chart"}

\* C7: with an empty store the log viewer and the dashboard show their
\* empty-state messages; with a date range that selects no row the dashboard
\* shows its no-data warning; metrics, charts and the ranking are rendered
\* only over a filtered set that is not empty.
C7_EmptyStates ==
    Connected("s1") =>
        LET v == view["s1"]
            rows == Store("s1", ActiveKey("s1"))
        IN  /\ rows = <<>> =>
                  /\ v.log = << El("info", NoRecords("s1"), <<>>) >>
                  /\ v.dash = << El("warning", "No data available to generate dashboard.", <<>>) >>
            /\ (/\ rows # <<>>
                /\ ShownStart("s1")[1] <= ShownEnd("s1")[1]
                /\ ShownRows("s1") = <<>>) =>
                  /\ Kinds(v.dash) = <<"markdown", "date_input", "date_input", "warning">>
                  /\ v.dash[4].label = "No data in the selected date range."
            /\ (\E i \in 1..Len(v.dash) :
                    v.dash[i].kind \in Aggregates \/ v.dash[i].label = "Failed item") =>
                  /\ rows # <<>>
                  /\ ShownStart("s1")[1] <= ShownEnd("s1")[1]
                  /\ ShownRows("s1") # <<>>
            /\ HasKind(v.log, "dataframe") => rows # <<>>

\* The only maintenance record is of day 2 and the range is day 1 to day 1.
C7_Witness ==
    /\ widgets["s1"].app_mode = EMT
    /\ Len(Store("s1", "activities")) = 1
    /\ Store("s1", "activities")[1]["Date"] = 2
    /\ widgets["s1"].start_date = <<1>>
    /\ widgets["s1"].end_date = <<1>>
    /\ HasKind(view["s1"].dash, "warning")

\* The log viewer of session s shows a table and offers its export.
LogShown(s) == Connected(s) /\ HasKind(view[s].log, "dataframe")
LogTable(s) == view[s].log[1].value
LogExport(s) == view[s].log[2].value

\* A column name is that of a remarks column.
RemarksNames == {RemarksCol(k) : k \in ItemKeys}

\* C5, as the spec states it: the header of the CSV export is exactly the
\* list of columns of the log table that is displayed, in both modules.
C5_ExportHeaderIsTableHeader ==
    LogShown("s1") => LogExport("s1").header = LogTable("s1").columns

\* C5, amended: the export has one record per stored row; the maintenance
\* export has exactly the 5 columns of the table displayed; the audit table
\* displays the 4 base columns and the 17 status columns, and the audit
\* export has these 21 columns in the same order and, besides them, the 17
\* remarks columns.
C5_ExportHeader ==
    LogShown("s1") =>
        LET header == LogExport("s1").header
            shown == LogTable("s1").columns
        IN  /\ Len(LogExport("s1").records) = Len(Store("s1", ActiveKey("s1")))
            /\ Len(LogTable("s1").rows) = Len(Store("s1", ActiveKey("s1")))
            /\ widgets["s1"].app_mode = EMT =>
                  /\ shown = <<"Date", "Equipment", "Technician", "Activity", "Remarks">>
                  /\ header = shown
            /\ widgets["s1"].app_mode = AUDITS =>
                  /\ shown = <<"Date", "Equipment", "Auditor", "Compliance Score">>
                             \o [i \in 1..17 |-> "item_" \o ToString(i) \o "_Status"]
                  /\ SelectSeq(header, LAMBDA c : c \notin RemarksNames) = shown
                  /\ Range(header) = Range(shown) \cup RemarksNames
                  /\ Len(header) = Len(shown) + 17
                  /\ Cardinality(RemarksNames) = 17

\* The audit log is displayed with a record whose remarks were filled in,
\* and the export holds the remark.
C5_Witness ==
    /\ widgets["s1"].app_mode = AUDITS
    /\ LogShown("s1")
    /\ LogExport("s1").records[1]["item_2_Remarks"] = "see photo"
    /\ "item_2_Remarks" \notin Range(LogTable("s1").columns)

\* The lines of the "Top 3 Failing Items" list session s shows.
FailedLines(s) == Labelled(view[s].dash, "markdown", "Failed item")

\* The position of a checklist item in the declaration, by its description.
Declared(desc) == CHOOSE i \in 1..Len(all_items) : all_items[i].desc = desc

\* The number of rows in which checklist item i failed.
Failures(rows, i) ==
    Cardinality({j \in 1..Len(rows) : rows[j][all_items[i].key \o "_Status"] = FALSE})

\* The items the list of session s names, as positions in the declaration.
Ranked(s) == [i \in 1..Len(FailedLines(s)) |-> Declared(FailedLines(s)[i].value.desc)]

\* The audit dashboard of session s shows its metrics.
RankingShown(s) ==
    Connected(s) /\ widgets[s].app_mode = AUDITS /\ HasKind(view[s].dash, "metric")

\* C6, as the spec states it: the list is the first three of the 17 items
\* ordered by descending failure count over the filtered rows, items of
\* equal count in the order of the checklist's declaration.
C6_TiesInDeclarationOrder ==
    RankingShown("s1") =>
        LET top == Ranked("s1")
            n(i) == Failures(ShownRows("s1"), i)
            Before(i, j) == n(i) > n(j) \/ (n(i) = n(j) /\ i < j)
        IN  /\ Len(top) = 3
            /\ Before(top[1], top[2]) /\ Before(top[2], top[3])
            /\ \A i \in 1..Len(all_items) : i \notin Range(top) => Before(top[3], i)

\* C6, amended: the list names three different items with their failure
\* counts over the filtered rows, in order of descending count, and no item
\* left out failed more often than the third; the order among items of
\* equal count, and which of them make the list, is not determined.
C6_TopThree ==
    RankingShown("s1") =>
        LET top == Ranked("s1")
            n(i) == Failures(ShownRows("s1"), i)
        IN  /\ Len(top) = 3
            /\ Cardinality(Range(top)) = 3
            /\ \A i \in 1..3 :
                  /\ FailedLines("s1")[i].value.rank = i
                  /\ FailedLines("s1")[i].value.count = n(top[i])
            /\ n(top[1]) >= n(top[2]) /\ n(top[2]) >= n(top[3])
            /\ \A i \in 1..Len(all_items) : i \notin Range(top) => n(i) <= n(top[3])

\* Two audits are in range; two items failed in both, and the list shows the
\* later declared of the two first, followed by an item that failed once.
C6_Witness ==
    /\ RankingShown("s1")
    /\ Len(ShownRows("s1")) = 2
    /\ Len(FailedLines("s1")) = 3
    /\ [i \in 1..3 |-> FailedLines("s1")[i].value.count] = <<2, 2, 1>>
    /\ Ranked("s1")[1] > Ranked("s1")[2]

\* C9: a session's stores are empty when it starts; a step that adds a row
\* to a store of one session leaves the other session's stores, widgets and
\* view as they were; and the log table a session displays has the rows of
\* that session's own store.
C9_SessionsIsolated ==
    [][ \A s \in Sessions :
          /\ (~Connected(s) /\ DOMAIN session_state'[s] # {}) =>
                /\ Rows(session_state'[s], "activities") = <<>>
                /\ Rows(session_state'[s], "audits") = <<>>
          /\ (\E key \in {"activities", "audits"} :
                 Rows(session_state'[s], key) # Rows(session_state[s], key)) =>
                \A t \in Sessions \ {s} :
                    /\ session_state'[t] = session_state[t]
                    /\ widgets'[t] = widgets[t]
                    /\ view'[t] = view[t]
          /\ HasKind(view'[s].log, "dataframe") =>
                LET key == IF widgets'[s].app_mode = EMT THEN "activities" ELSE "audits"
                    own == Rows(session_state'[s], key)
                    shown == view'[s].log[1].value.rows
                IN  /\ Len(shown) = Len(own)
                    /\ \A i \in 1..Len(own) : \A c \in {"Date", "Equipment"} :
                          shown[i][c] = own[i][c] ]_vars

\* Both sessions have submitted: one holds a maintenance record and no
\* audit, the other an audit and no maintenance record.
C9_Witness ==
    /\ Len(Store("s1", "activities")) = 1 /\ Store("s1", "audits") = <<>>
    /\ Len(Store("s2", "audits")) = 1 /\ Store("s2", "activities") = <<>>
    /\ Connected("s2")
    /\ HasKind(view["s1"].log, "dataframe")
    /\ HasKind(view["s2"].log, "dataframe")

====
